---- MODULE Spec2Model ----
(***************************************************************************)
(* Model of be/src/exec/hdfs-scanner.cc (Impala HdfsScanner).              *)
(*                                                                         *)
(* Two specifications share the module:                                    *)
(*   Spec        the scanner's row-batch life cycle: Prepare, CommitRows,  *)
(*               AddFinalRowBatch, with the environment raising the        *)
(*               cancellation flag and failing the query-wide check;       *)
(*   WriterSpec  one row written by the interpreted WriteCompleteTuple and *)
(*               then by the function CodegenWriteCompleteTuple builds,    *)
(*               executed basic block by basic block, on the same input.   *)
(* Slot, conjunct and pass indexes are 0-based as in the source.           *)
(***************************************************************************)
EXTENDS Integers, Sequences, FiniteSets, TLC

VARIABLES
  \* ---- scan-node configuration and one row's input (WriterSpec) ----
  slot_types,        \* types of scan_node_->materialized_slots(), in order
  escape_char,       \* partition->escape_char(); "" is '\0'
  compact_data,      \* stream_->compact_data()
  node_compact_data, \* node->compact_data(), as the code generator reads it
  num_materialized_partition_keys,
  conjuncts,         \* *conjuncts_, the ordered predicate list
  fields,            \* FieldLocation fields[]: [start, len] per slot
  stale,             \* the null bits the reused tuple memory holds before the call
  interp,            \* the run of WriteCompleteTuple
  fused,             \* the run of the generated function
  \* ---- row-batch life cycle (Spec) ----
  context_,          \* "NULL" before Prepare, "set" afterwards
  batch_,            \* id of the current RowBatch, 0 is NULL
  tuple_mem_,        \* [batch, off]: cursor into a batch's tuple allocation
  batches,           \* every RowBatch created so far, by id
  delivered,         \* calls of AddMaterializedRowBatch, in order
  cancelled,         \* context_->cancelled()
  query_ok,          \* state_->CheckQueryState().ok()
  status,            \* what the last CommitRows returned
  last,              \* the last call made on the scanner, for the record
  conjuncts_,        \* "NULL", or "set" while the scanner holds the conjuncts
  memory,            \* what the last GetMemory call handed to its caller
  \* ---- parse-error reporting (ReportSpec) ----
  abort_on_error,    \* state_->abort_on_error()
  error_log,         \* the messages given to state_->LogError, in order
  parse_status_,     \* [ok, msg]
  num_errors_in_file_,
  file_errors,       \* errors registered by state_->ReportFileErrors
  errors,            \* the caller's per-slot error flags, uint8_t errors[]
  report,            \* the last ReportTupleParseError call, for the record
  \* ---- rows without materialized slots (EmptySpec) ----
  row_batch,         \* the RowBatch the empty tuples go to
  batch_call,        \* the last WriteEmptyTuples(row_batch, n) call
  row_call,          \* the last WriteEmptyTuples(context, row, n) call
  \* ---- code generation (CodegenSpec) ----
  exprs,             \* per conjunct: codegen_fn() given, scratch_buffer_size()
  llvm,              \* which of the code generator's own steps succeed
  node_fn,           \* what CodegenWriteCompleteTuple gave the scan node
  codegen_fn_,
  write_tuples_fn_,
  num_scanners_codegen_enabled,
  num_scanners_codegen_disabled,
  init_call          \* the scanner's InitializeWriteTuplesFn call

writer_vars == <<slot_types, escape_char, compact_data, node_compact_data,
                 num_materialized_partition_keys, conjuncts, fields, stale,
                 interp, fused>>
batch_vars == <<context_, batch_, tuple_mem_, batches, delivered, cancelled,
                query_ok, status, last, conjuncts_, memory>>
report_vars == <<abort_on_error, error_log, parse_status_, num_errors_in_file_,
                 file_errors, errors, report>>
empty_vars == <<row_batch, batch_call, row_call>>
codegen_vars == <<exprs, llvm, node_fn, codegen_fn_, write_tuples_fn_,
                  num_scanners_codegen_enabled, num_scanners_codegen_disabled,
                  init_call>>
nonwriter_vars == <<batch_vars, report_vars, empty_vars, codegen_vars>>
nonbatch_vars == <<writer_vars, report_vars, empty_vars, codegen_vars>>
vars == <<writer_vars, batch_vars, report_vars, empty_vars, codegen_vars>>

\* ------------------------------------------------------------------ bounds
MaxConjuncts == 2
BatchSize == 2
MaxBatches == 3
MaxLogErrors == 2
MaxReports == 2
MaxScanners == 2

\* ------------------------------------------------------- field data, values
Abs(x) == IF x < 0 THEN -x ELSE x

Min(S) == CHOOSE x \in S : \A y \in S : x <= y

\* The table's null indicator, node->hdfs_table()->null_column_value().
null_column_value == <<"\\", "N">>

\* The byte strings a field is drawn from: empty, the null indicator, two
\* integers on either side of the predicates' constant, a non-number, and a
\* field holding the escape character.
FieldData == {<< >>, <<"\\", "N">>, <<"7">>, <<"3">>, <<"a">>, <<"\\", "7">>}

HasEscape(data, esc) == \E j \in 1..Len(data) : data[j] = esc

\* The byte-extraction layer's output for one column: a negative length says
\* the column holds escape characters.
FieldLocation(data, esc) ==
  [start |-> data,
   len |-> IF esc # "" /\ HasEscape(data, esc) THEN -Len(data) ELSE Len(data)]

\* Slot storage. "garbage" is memory nobody has written in this call.
Garbage == [k |-> "garbage", i |-> 0, s |-> << >>, pool |-> FALSE]
IntVal(v) == [k |-> "int", i |-> v, s |-> << >>, pool |-> FALSE]
StrVal(bytes, in_pool) == [k |-> "str", i |-> 0, s |-> bytes, pool |-> in_pool]
Zero(type) == IF type = "STRING" THEN StrVal(<< >>, FALSE) ELSE IntVal(0)

DigitValue(c) ==
  CASE c = "0" -> 0 [] c = "1" -> 1 [] c = "2" -> 2 [] c = "3" -> 3
    [] c = "4" -> 4 [] c = "5" -> 5 [] c = "6" -> 6 [] c = "7" -> 7
    [] c = "8" -> 8 [] c = "9" -> 9 [] OTHER -> -1

RECURSIVE ParseDigits(_, _)
ParseDigits(bytes, acc) ==
  IF bytes = << >> THEN [ok |-> TRUE, val |-> acc]
  ELSE IF DigitValue(Head(bytes)) < 0 THEN [ok |-> FALSE, val |-> 0]
  ELSE ParseDigits(Tail(bytes), acc * 10 + DigitValue(Head(bytes)))

StringToInt(bytes) ==
  IF bytes = << >> THEN [ok |-> FALSE, val |-> 0] ELSE ParseDigits(bytes, 0)

RECURSIVE UnescapeString(_, _)
UnescapeString(bytes, esc) ==
  IF bytes = << >> THEN << >>
  ELSE IF Head(bytes) = esc /\ Len(bytes) > 1
    THEN <<bytes[2]>> \o UnescapeString(SubSeq(bytes, 3, Len(bytes)), esc)
  ELSE IF Head(bytes) = esc THEN << >>
  ELSE <<Head(bytes)>> \o UnescapeString(Tail(bytes), esc)

\* ------------------------------------------------------------------ tuples
NumSlots(types) == Len(types)
SlotIdx(types) == 0 .. (Len(types) - 1)
Slots == SlotIdx(slot_types)
SlotType(i) == slot_types[i + 1]
string_slots(types) == {i \in SlotIdx(types) : types[i + 1] = "STRING"}

SetNull(tuple, i) == [tuple EXCEPT !.null[i] = TRUE]
SetValue(tuple, i, v) == [tuple EXCEPT !.val[i] = v]

\* scan_node_->InitTemplateTuple: NULL (the empty sequence) when no partition
\* key is materialized, else a zeroed tuple with the partition key written.
InitTemplateTuple(types, npk) ==
  IF npk = 0 THEN << >>
  ELSE <<[null |-> [i \in SlotIdx(types) |-> FALSE],
          val |-> [i \in SlotIdx(types) |-> Zero(types[i + 1])],
          pk |-> 1]>>

template_tuple == InitTemplateTuple(slot_types, num_materialized_partition_keys)

\* The tuple memory handed to the writer: it is reused from a rejected row
\* to the next one, so its null bits (all b here) and slot bytes are stale.
\* The caller zeroes error_fields[] and *error_in_row.
StaleTuple(types, b) ==
  [null |-> [i \in SlotIdx(types) |-> b],
   val |-> [i \in SlotIdx(types) |-> Garbage],
   pk |-> 0]

ZeroNullBytes(tuple) == [tuple EXCEPT !.null = [i \in DOMAIN tuple.null |-> FALSE]]

\* HdfsScanner::InitTuple
InitTuple(template, tuple) ==
  IF template # << >> THEN template[1] ELSE ZeroNullBytes(tuple)

\* TextConverter::WriteSlot: [tuple, ok]
WriteSlot(type, tuple, i, data, len, copy_string, need_escape, esc) ==
  LET bytes == SubSeq(data, 1, len) IN
  IF len = 0 /\ type # "STRING"
    THEN [tuple |-> SetNull(tuple, i), ok |-> TRUE]
  ELSE IF bytes = null_column_value
    THEN [tuple |-> SetNull(tuple, i), ok |-> TRUE]
  ELSE IF type = "STRING"
    THEN [tuple |-> SetValue(tuple, i,
                      IF len # 0 /\ (copy_string \/ need_escape)
                        THEN StrVal(IF need_escape THEN UnescapeString(bytes, esc)
                                    ELSE bytes, TRUE)
                        ELSE StrVal(bytes, FALSE)),
          ok |-> TRUE]
  ELSE LET r == StringToInt(bytes) IN
       IF r.ok THEN [tuple |-> SetValue(tuple, i, IntVal(r.val)), ok |-> TRUE]
       ELSE [tuple |-> SetNull(tuple, i), ok |-> FALSE]

\* The function TextConverter::CodegenWriteSlot builds for one slot: called
\* with the raw field length, same conversion as WriteSlot.
CodegenWriteSlot(type, tuple, i, data, len, esc) ==
  WriteSlot(type, tuple, i, data, Abs(len), FALSE, len < 0, esc)

\* --------------------------------------------------------------- conjuncts
\* A conjunct is a constant, "slot IS NULL", or "slot > 5" on an INT slot.
ConjunctsFor(types) ==
  {[op |-> "true", slot |-> 0]}
    \cup {[op |-> "is_null", slot |-> s] : s \in SlotIdx(types)}
    \cup {[op |-> "gt5", slot |-> s] :
            s \in {i \in SlotIdx(types) : types[i + 1] = "INT"}}

ConjunctLists(types) ==
  UNION {[1..n -> ConjunctsFor(types)] : n \in 0..MaxConjuncts}

\* Expr::GetSlotIds
GetSlotIds(c) == IF c.op \in {"true", "false", "pk_eq"} THEN {} ELSE {c.slot}

\* One conjunct on a tuple: the set of results it can give. Reading a slot
\* whose bytes were never written gives either result.
ConjunctEval(c, tuple) ==
  CASE c.op = "true" -> {TRUE}
    [] c.op = "false" -> {FALSE}
    [] c.op = "pk_eq" -> {tuple.pk = c.slot}
    [] c.op = "is_null" -> {tuple.null[c.slot]}
    [] c.op = "gt5" ->
         IF tuple.null[c.slot] THEN {FALSE}
         ELSE IF tuple.val[c.slot].k = "int" THEN {tuple.val[c.slot].i > 5}
         ELSE BOOLEAN

\* ExecNode::EvalConjuncts from conjunct k on: in order, stopping at the first
\* rejection.
RECURSIVE EvalConjunctsFrom(_, _, _)
EvalConjunctsFrom(conjs, k, tuple) ==
  IF k >= Len(conjs) THEN {TRUE}
  ELSE UNION {IF r THEN EvalConjunctsFrom(conjs, k + 1, tuple) ELSE {FALSE} :
                r \in ConjunctEval(conjs[k + 1], tuple)}

EvalConjuncts(conjs, num, tuple) == EvalConjunctsFrom(SubSeq(conjs, 1, num), 0, tuple)

\* HdfsScanNode::ComputeSlotMaterializationOrder: per slot, the first conjunct
\* that references it, or conjuncts.size().
ComputeSlotMaterializationOrder(types, conjs) ==
  [s \in SlotIdx(types) |->
     LET ks == {k \in 0..(Len(conjs) - 1) : s \in GetSlotIds(conjs[k + 1])} IN
     IF ks = {} THEN Len(conjs) ELSE Min(ks)]

materialize_order == ComputeSlotMaterializationOrder(slot_types, conjuncts)

\* ------------------------------------------------------------ eligibility
Schemas == {<<"INT", "STRING">>, <<"INT", "INT">>}

\* CodegenWriteCompleteTuple's checks on the slots
CodegenSlotsEligible(types, compact) ==
  /\ \A i \in SlotIdx(types) : types[i + 1] # "TIMESTAMP"
  /\ ~(compact /\ string_slots(types) # {})

CodegenUsableIgnoringEscape(types, esc, compact) ==
  ~(string_slots(types) # {} /\ compact)

\* InitializeWriteTuplesFn's check before it installs write_tuples_fn_
CodegenUsable(types, esc, compact) ==
  ~(string_slots(types) # {} /\ (esc # "" \/ compact))

\* The configurations under which a scanner runs the fused function: the
\* node generated it and InitializeWriteTuplesFn installed it. The node's
\* flag is read by the code generator only; the writer runs here under a
\* node that does not ask for compacted data.
EligibleConfigs ==
  {c \in [slot_types : Schemas, escape_char : {"", "\\"}, compact_data : BOOLEAN,
           node_compact_data : {FALSE}] :
     /\ CodegenSlotsEligible(c.slot_types, c.node_compact_data)
     /\ CodegenUsable(c.slot_types, c.escape_char, c.compact_data)}

\* ------------------------------------------- WriteCompleteTuple (interpreted)
ErrorInRowAssign(error_in_row, error) == error

\* *error_in_row |= error
ErrorInRowOrAssign(error_in_row, error) == error_in_row \/ error

\* The slot loop of WriteCompleteTuple from slot i on. st is what the loop
\* writes: the tuple, error_fields[], *error_in_row; attempts records the
\* slots handed to WriteSlot, in order.
RECURSIVE WriteSlotsFrom(_, _, _, _, _, _)
WriteSlotsFrom(i, types, flds, copy_string, esc, st) ==
  IF i >= NumSlots(types) THEN st
  ELSE LET need_escape == flds[i].len < 0
           len == IF flds[i].len < 0 THEN -flds[i].len ELSE flds[i].len
           w == WriteSlot(types[i + 1], st.tuple, i, flds[i].start, len,
                          copy_string, need_escape, esc)
           error == ~w.ok
       IN WriteSlotsFrom(i + 1, types, flds, copy_string, esc,
            [tuple |-> w.tuple,
             error_fields |-> [st.error_fields EXCEPT ![i] = error],
             error_in_row |-> ErrorInRowOrAssign(st.error_in_row, error),
             attempts |-> Append(st.attempts, i)])

\* HdfsScanner::WriteCompleteTuple: the set of outcomes of one call.
WriteCompleteTuple(types, flds, tuple, template, error_fields, copy_string, esc, conjs) ==
  LET st == WriteSlotsFrom(0, types, flds, copy_string, esc,
              [tuple |-> InitTuple(template, tuple),
               error_fields |-> error_fields,
               error_in_row |-> FALSE,
               attempts |-> << >>])
  IN {[pc |-> "done", tuple |-> st.tuple, error_fields |-> st.error_fields,
       error_in_row |-> st.error_in_row, ret |-> r, attempts |-> st.attempts] :
        r \in EvalConjuncts(conjs, Len(conjs), st.tuple)}

InterpStart(types, b) ==
  [pc |-> "start", tuple |-> StaleTuple(types, b),
   error_fields |-> [i \in SlotIdx(types) |-> FALSE], error_in_row |-> FALSE,
   ret |-> FALSE, attempts |-> << >>]

\* A call on a prepared scanner: the writer reads stream_ and conjuncts_.
CallWriteCompleteTuple ==
  /\ context_ = "set"
  /\ conjuncts_ = "set"
  /\ interp.pc = "start"
  /\ interp' \in WriteCompleteTuple(slot_types, fields, interp.tuple, template_tuple,
                                    interp.error_fields, compact_data, escape_char,
                                    conjuncts)
  /\ UNCHANGED <<slot_types, escape_char, compact_data, node_compact_data,
                 num_materialized_partition_keys, conjuncts, fields, stale, fused>>
  /\ UNCHANGED nonwriter_vars

\* ------------------------- the function CodegenWriteCompleteTuple generates
FusedInitTupleZeroOnly(npk, template, tuple) == ZeroNullBytes(tuple)

\* Tuple initialisation in the entry block.
FusedInitTuple(npk, template, tuple) ==
  IF npk = 0 THEN ZeroNullBytes(tuple) ELSE template[1]

ShouldMaterializeAhead(order, slot_idx, conjunct_idx) ==
  order[slot_idx] \in {conjunct_idx, conjunct_idx + 1}

ShouldMaterializeLate(order, slot_idx, conjunct_idx) ==
  order[slot_idx] = conjunct_idx + 1

ShouldMaterializeUpTo(order, slot_idx, conjunct_idx) ==
  order[slot_idx] <= conjunct_idx

\* if (materialize_order[slot_idx] != conjunct_idx) continue;
ShouldMaterialize(order, slot_idx, conjunct_idx) == order[slot_idx] = conjunct_idx

FusedErrorInRowLast(error_in_row, slot_error) == slot_error

\* error_in_row = builder.CreateOr(error_in_row, slot_error)
FusedErrorInRowOr(error_in_row, slot_error) == error_in_row \/ slot_error

\* The inner loop over slot_idx for one conjunct_idx: the slot conversions of
\* one parse block. converted records each conversion with its pass.
RECURSIVE MaterializeSlotsFrom(_, _, _, _, _, _, _)
MaterializeSlotsFrom(slot_idx, conjunct_idx, order, types, flds, esc, st) ==
  IF slot_idx >= NumSlots(types) THEN st
  ELSE IF ~ShouldMaterialize(order, slot_idx, conjunct_idx)
    THEN MaterializeSlotsFrom(slot_idx + 1, conjunct_idx, order, types, flds, esc, st)
  ELSE LET w == CodegenWriteSlot(types[slot_idx + 1], st.tuple, slot_idx,
                                 flds[slot_idx].start, flds[slot_idx].len, esc)
           slot_error == ~w.ok
       IN MaterializeSlotsFrom(slot_idx + 1, conjunct_idx, order, types, flds, esc,
            [st EXCEPT !.tuple = w.tuple,
                       !.error_fields[slot_idx] = slot_error,
                       !.error_in_row = FusedErrorInRowOr(st.error_in_row, slot_error),
                       !.converted = Append(st.converted,
                                       [slot |-> slot_idx, pass |-> conjunct_idx])])

\* if (conjunct_idx == conjuncts.size()): the block that stores and returns
IsFinalPass(conjunct_idx, num_conjuncts) == conjunct_idx = num_conjuncts

CondBrAlwaysParse(result) == "parse"

\* builder.CreateCondBr(result, parse_block, eval_fail_block)
CondBr(result) == IF result THEN "parse" ELSE "eval_fail"

FusedStart(types, b) ==
  [pc |-> "entry", conjunct_idx |-> 0, tuple |-> StaleTuple(types, b),
   error_fields |-> [i \in SlotIdx(types) |-> FALSE], error_in_row_arg |-> FALSE,
   error_in_row |-> FALSE, ret |-> FALSE, converted |-> << >>,
   evaluated |-> << >>, exit |-> "none"]

FusedUnchanged ==
  /\ UNCHANGED <<slot_types, escape_char, compact_data, node_compact_data,
                 num_materialized_partition_keys, conjuncts, fields, stale, interp>>
  /\ UNCHANGED nonwriter_vars

\* entry block: error_in_row starts false, the tuple is initialised and put
\* in the row. The harness runs the generated function after the interpreted
\* one, on the same input.
FusedEntry ==
  /\ interp.pc = "done"
  /\ fused.pc = "entry"
  /\ fused' = [fused EXCEPT
       !.pc = "parse",
       !.error_in_row = FALSE,
       !.tuple = FusedInitTuple(num_materialized_partition_keys, template_tuple,
                                fused.tuple)]
  /\ FusedUnchanged

\* parse block conjunct_idx: its slot conversions
FusedParse ==
  /\ fused.pc = "parse"
  /\ LET st == MaterializeSlotsFrom(0, fused.conjunct_idx, materialize_order,
                                    slot_types, fields, escape_char, fused)
     IN fused' = [st EXCEPT !.pc = IF IsFinalPass(fused.conjunct_idx, Len(conjuncts))
                                     THEN "ret_true" ELSE "eval"]
  /\ FusedUnchanged

\* the call of conjuncts[conjunct_idx]'s compiled form and the branch on it
FusedEval ==
  /\ fused.pc = "eval"
  /\ \E result \in ConjunctEval(conjuncts[fused.conjunct_idx + 1], fused.tuple) :
       fused' = [fused EXCEPT
         !.evaluated = Append(fused.evaluated,
                         [idx |-> fused.conjunct_idx, result |-> result]),
         !.pc = CondBr(result),
         !.conjunct_idx = IF CondBr(result) = "parse" THEN fused.conjunct_idx + 1
                          ELSE fused.conjunct_idx]
  /\ FusedUnchanged

\* the last parse block's end: store *error_in_row, ret true
FusedRetTrue ==
  /\ fused.pc = "ret_true"
  /\ fused' = [fused EXCEPT !.pc = "done", !.ret = TRUE, !.exit = "ret_true",
                            !.error_in_row_arg = fused.error_in_row]
  /\ FusedUnchanged

\* eval_fail block: ret false
FusedEvalFail ==
  /\ fused.pc = "eval_fail"
  /\ fused' = [fused EXCEPT !.pc = "done", !.ret = FALSE, !.exit = "eval_fail"]
  /\ FusedUnchanged

\* ------------------------------------------------------ batch life cycle
\* scan_node->tuple_desc()->byte_size()
tuple_byte_size_ == 8

\* new RowBatch(row_desc, capacity, mem_tracker)
NewRowBatch(capacity) == [num_rows |-> 0, capacity |-> capacity]

\* RowBatch::IsFull
IsFull(batch) == batch.num_rows = batch.capacity

\* context_->AttachCompletedResources(batch, done) followed by
\* scan_node_->AddMaterializedRowBatch(batch): what the scan node receives
AddMaterializedRowBatch(queue, batch, done) ==
  Append(queue, [batch |-> batch, done |-> done])

\* HdfsScanner::StartNewRowBatch: the new values of batches, batch_, tuple_mem_
StartNewRowBatch(bs) ==
  [batches |-> Append(bs, NewRowBatch(BatchSize)),
   batch_ |-> Len(bs) + 1,
   tuple_mem_ |-> [batch |-> Len(bs) + 1, off |-> 0]]

ShouldSealWhenFullOnly(batch, at_resource_limit) == IsFull(batch)

ShouldSealAtLimitOnly(batch, at_resource_limit) == at_resource_limit

\* if (batch_->IsFull() || batch_->AtResourceLimit())
ShouldSeal(batch, at_resource_limit) == IsFull(batch) \/ at_resource_limit

CommitRowsStatusHealthFirst(is_cancelled, is_query_ok) ==
  IF ~is_query_ok THEN "ERROR" ELSE IF is_cancelled THEN "CANCELLED" ELSE "OK"

CommitRowsStatusWithoutHealth(is_cancelled, is_query_ok) ==
  IF is_cancelled THEN "CANCELLED" ELSE "OK"

\* if (context_->cancelled()) return Status::CANCELLED;
\* RETURN_IF_ERROR(state_->CheckQueryState()); return Status::OK;
CommitRowsStatus(is_cancelled, is_query_ok) ==
  IF is_cancelled THEN "CANCELLED" ELSE IF ~is_query_ok THEN "ERROR" ELSE "OK"

\* No call made on the scanner yet
NoLastCall ==
  [op |-> "none", num_rows |-> 0, at_resource_limit |-> FALSE,
   was_cancelled |-> FALSE, was_query_ok |-> TRUE, batch |-> 0,
   rows_before |-> 0, total_rows |-> 0, delivered_before |-> 0, ret |-> "OK"]

\* No GetMemory call made yet
NoMemory == [called |-> FALSE, pool |-> 0, tuple_mem |-> [batch |-> 0, off |-> 0],
             tuple_row_mem |-> 0, ret |-> 0]

\* The constructor: no context, no batch, tuple_mem_ not yet set.
BatchConstructed ==
  /\ context_ = "NULL"
  /\ conjuncts_ = "NULL"
  /\ batch_ = 0
  /\ tuple_mem_ = [batch |-> 0, off |-> 0]
  /\ batches = << >>
  /\ delivered = << >>
  /\ cancelled = FALSE
  /\ query_ok = TRUE
  /\ status = "OK"
  /\ last = NoLastCall
  /\ memory = NoMemory

Call(op, num_rows, at_resource_limit, ret) ==
  [op |-> op, num_rows |-> num_rows, at_resource_limit |-> at_resource_limit,
   was_cancelled |-> cancelled, was_query_ok |-> query_ok, batch |-> batch_,
   rows_before |-> IF batch_ = 0 THEN 0 ELSE batches[batch_].num_rows,
   total_rows |-> last.total_rows + (IF op = "CommitRows" THEN num_rows ELSE 0),
   delivered_before |-> Len(delivered), ret |-> ret]

\* HdfsScanner::Prepare, called once per scanner
Prepare ==
  /\ context_ = "NULL"
  /\ context_' = "set"
  /\ conjuncts_' = "set"
  /\ LET new == StartNewRowBatch(batches) IN
       /\ batches' = new.batches
       /\ batch_' = new.batch_
       /\ tuple_mem_' = new.tuple_mem_
  /\ last' = Call("Prepare", 0, FALSE, "OK")
  /\ UNCHANGED <<memory, delivered, cancelled, query_ok, status>>
  /\ UNCHANGED nonbatch_vars

\* HdfsScanner::GetMemory: the out-parameters *pool, *tuple_mem and
\* *tuple_row_mem (the index of the row AddRow gives) and the value
\* returned; its two assertions are what it may be called under.
GetMemory ==
  /\ batch_ # 0
  /\ ~IsFull(batches[batch_])
  /\ memory' = [called |-> TRUE, pool |-> batch_, tuple_mem |-> tuple_mem_,
                tuple_row_mem |-> batches[batch_].num_rows,
                ret |-> batches[batch_].capacity - batches[batch_].num_rows]
  /\ last' = Call("GetMemory", 0, FALSE, "none")
  /\ UNCHANGED <<context_, conjuncts_, batch_, tuple_mem_, batches, delivered,
                 cancelled, query_ok, status>>
  /\ UNCHANGED nonbatch_vars

\* HdfsScanner::CommitRows(num_rows). at_resource_limit is what
\* batch_->AtResourceLimit() answers after the commit. The caller stops
\* committing once a call returned an error status.
CommitRows(num_rows, at_resource_limit) ==
  /\ batch_ # 0
  /\ status = "OK"
  /\ num_rows <= batches[batch_].capacity - batches[batch_].num_rows
  /\ LET committed == [batches EXCEPT ![batch_].num_rows = @ + num_rows]
         cursor == [tuple_mem_ EXCEPT !.off = @ + tuple_byte_size_ * num_rows]
         seal == ShouldSeal(committed[batch_], at_resource_limit)
         new == StartNewRowBatch(committed)
     IN /\ seal => Len(batches) < MaxBatches
        /\ IF seal
             THEN /\ delivered' = AddMaterializedRowBatch(delivered, batch_, FALSE)
                  /\ batches' = new.batches
                  /\ batch_' = new.batch_
                  /\ tuple_mem_' = new.tuple_mem_
             ELSE /\ batches' = committed
                  /\ tuple_mem_' = cursor
                  /\ UNCHANGED <<batch_, delivered>>
  /\ status' = CommitRowsStatus(cancelled, query_ok)
  /\ last' = Call("CommitRows", num_rows, at_resource_limit,
                  CommitRowsStatus(cancelled, query_ok))
  /\ UNCHANGED <<context_, conjuncts_, memory, cancelled, query_ok>>
  /\ UNCHANGED nonbatch_vars

AddFinalRowBatchKeepsBatch ==
  /\ batch_ # 0
  /\ delivered' = AddMaterializedRowBatch(delivered, batch_, TRUE)
  /\ last' = Call("AddFinalRowBatch", 0, FALSE, "OK")
  /\ UNCHANGED <<batch_, context_, conjuncts_, memory, tuple_mem_, batches,
                 cancelled, query_ok, status>>
  /\ UNCHANGED nonbatch_vars

AddFinalRowBatchDropsBatch ==
  /\ batch_ # 0
  /\ batch_' = 0
  /\ last' = Call("AddFinalRowBatch", 0, FALSE, "OK")
  /\ UNCHANGED <<context_, conjuncts_, memory, tuple_mem_, batches, delivered,
                 cancelled, query_ok, status>>
  /\ UNCHANGED nonbatch_vars

\* HdfsScanner::AddFinalRowBatch
AddFinalRowBatch ==
  /\ batch_ # 0
  /\ delivered' = AddMaterializedRowBatch(delivered, batch_, TRUE)
  /\ batch_' = 0
  /\ last' = Call("AddFinalRowBatch", 0, FALSE, "OK")
  /\ UNCHANGED <<context_, conjuncts_, memory, tuple_mem_, batches, cancelled,
                 query_ok, status>>
  /\ UNCHANGED nonbatch_vars

\* The environment: the query is cancelled while the split is scanned.
Cancel ==
  /\ batch_ # 0
  /\ ~cancelled
  /\ cancelled' = TRUE
  /\ UNCHANGED <<context_, conjuncts_, memory, batch_, tuple_mem_, batches,
                 delivered, query_ok, status, last>>
  /\ UNCHANGED nonbatch_vars

\* The environment: the query-wide check starts to fail.
QueryFails ==
  /\ batch_ # 0
  /\ query_ok
  /\ query_ok' = FALSE
  /\ UNCHANGED <<context_, conjuncts_, memory, batch_, tuple_mem_, batches,
                 delivered, cancelled, status, last>>
  /\ UNCHANGED nonbatch_vars

\* ------------------------------------------------- parse-error reporting
\* scan_node_->num_partition_keys()
num_partition_keys == 1

\* SlotDescriptor::col_pos of materialized slot i: the partition keys come first
col_pos(i) == num_partition_keys + i

NoMessage == [kind |-> "none", col |-> 0, type |-> "", data |-> << >>]

StatusOK == [ok |-> TRUE, msg |-> NoMessage]

\* RuntimeState::LogHasSpace
LogHasSpace(log) == Len(log) < MaxLogErrors

\* "Error converting column: <col> TO <type> (Data is: <string(data,len)>)"
ColumnMessage(types, i, data, len) ==
  [kind |-> "column", col |-> col_pos(i) - num_partition_keys,
   type |-> types[i + 1], data |-> SubSeq(data, 1, len)]

\* "file: <filename> record: ..." as the subclass's LogRowParseError words it
RowMessage(row_idx) ==
  [kind |-> "row", col |-> row_idx, type |-> "", data |-> << >>]

ShownLengthRaw(len) == len

\* if (len < 0) len = -len;
ShownLength(len) == IF len < 0 THEN -len ELSE len

SetsParseStatusWithoutAbort(abort, status_ok) == status_ok

SetsParseStatusEveryTime(abort, status_ok) == abort

\* if (state_->abort_on_error() && parse_status_.ok()) parse_status_ = ...
SetsParseStatus(abort, status_ok) == abort /\ status_ok

\* HdfsScanner::ReportColumnParseError on st = [log, status, reported, errors];
\* reported records the calls: the slot and the length it shows.
ReportColumnParseError(st, types, i, data, len0, abort) ==
  LET len == ShownLength(len0)
      msg == ColumnMessage(types, i, data, len)
      called == [st EXCEPT !.reported = Append(st.reported, [slot |-> i, len |-> len])]
  IN IF LogHasSpace(st.log) \/ abort
       THEN [called EXCEPT
               !.log = IF LogHasSpace(st.log) THEN Append(st.log, msg) ELSE st.log,
               !.status = IF SetsParseStatus(abort, st.status.ok)
                            THEN [ok |-> FALSE, msg |-> msg] ELSE st.status]
       ELSE called

FlagKept(flag) == flag

\* errors[i] = false;
FlagCleared(flag) == FALSE

\* The slot loop of ReportTupleParseError from slot i on
RECURSIVE ReportSlotsFrom(_, _, _, _, _)
ReportSlotsFrom(i, types, flds, abort, st) ==
  IF i >= NumSlots(types) THEN st
  ELSE IF st.errors[i]
    THEN ReportSlotsFrom(i + 1, types, flds, abort,
           [ReportColumnParseError(st, types, i, flds[i].start, flds[i].len, abort)
              EXCEPT !.errors[i] = FlagCleared(st.errors[i])])
  ELSE ReportSlotsFrom(i + 1, types, flds, abort, st)

NumErrorsPerFlag(n, flagged) == n + flagged

\* ++num_errors_in_file_;
NumErrorsIncremented(n, flagged) == n + 1

NoFlags(types) == [i \in SlotIdx(types) |-> FALSE]

\* What another node of the query has put in the shared log
OtherMessage == [kind |-> "other", col |-> 0, type |-> "", data |-> << >>]

ReportConstructed ==
  /\ error_log \in {<< >>, [j \in 1..MaxLogErrors |-> OtherMessage]}
  /\ parse_status_ = StatusOK
  /\ num_errors_in_file_ = 0
  /\ file_errors = 0
  /\ errors = NoFlags(slot_types)
  /\ report = [calls |-> 0, flagged |-> NoFlags(slot_types), fields |-> fields,
               log_before |-> Len(error_log), num_errors_before |-> 0,
               status_before |-> StatusOK, reported |-> << >>,
               errors_after |-> NoFlags(slot_types), ret |-> TRUE]

\* The row writer hands back a row with a conversion error: new field
\* locations, and error flags on exactly the slots that failed. The writer
\* goes on to evaluate conjuncts_, which Close has not released yet.
FlagRow ==
  /\ context_ = "set"
  /\ conjuncts_ = "set"
  /\ errors = NoFlags(slot_types)
  /\ \E flds \in [Slots -> {FieldLocation(d, escape_char) :
                              d \in {<<"7">>, <<"a">>, <<"\\", "7">>}}] :
       /\ fields' = flds
       /\ errors' = [i \in Slots |->
            ~WriteSlot(SlotType(i), StaleTuple(slot_types, FALSE), i, flds[i].start,
                       Abs(flds[i].len), compact_data, flds[i].len < 0,
                       escape_char).ok]
  /\ errors' # NoFlags(slot_types)
  /\ UNCHANGED <<slot_types, escape_char, compact_data, node_compact_data,
                 num_materialized_partition_keys, conjuncts, stale, interp, fused>>
  /\ UNCHANGED <<abort_on_error, error_log, parse_status_, num_errors_in_file_,
                 file_errors, report>>
  /\ UNCHANGED <<batch_vars, empty_vars, codegen_vars>>

\* HdfsScanner::ReportTupleParseError(fields, errors, row_idx). Under
\* abort-on-error it asserts that the status has failed, so it is called with
\* a flagged slot or after the status failed.
ReportTupleParseError(row_idx) ==
  /\ context_ = "set"
  /\ num_errors_in_file_ < MaxReports
  /\ abort_on_error => (errors # NoFlags(slot_types) \/ ~parse_status_.ok)
  /\ LET st == ReportSlotsFrom(0, slot_types, fields, abort_on_error,
                 [log |-> error_log, status |-> parse_status_,
                  reported |-> << >>, errors |-> errors])
         flagged == Cardinality({i \in Slots : errors[i]})
     IN /\ errors' = st.errors
        /\ error_log' = IF LogHasSpace(st.log)
                          THEN Append(st.log, RowMessage(row_idx)) ELSE st.log
        /\ num_errors_in_file_' = NumErrorsIncremented(num_errors_in_file_, flagged)
        /\ file_errors' = IF abort_on_error THEN file_errors + 1 ELSE file_errors
        /\ parse_status_' = st.status
        /\ report' = [calls |-> Min({report.calls + 1, 2}), flagged |-> errors,
                      fields |-> fields, log_before |-> Len(error_log),
                      num_errors_before |-> num_errors_in_file_,
                      status_before |-> parse_status_,
                      reported |-> st.reported, errors_after |-> st.errors,
                      ret |-> st.status.ok]
  /\ UNCHANGED abort_on_error
  /\ UNCHANGED <<writer_vars, batch_vars, empty_vars, codegen_vars>>

\* HdfsScanner::Close
Close ==
  /\ conjuncts_ # "NULL"
  /\ conjuncts_' = "NULL"
  /\ last' = Call("Close", 0, FALSE, "OK")
  /\ UNCHANGED <<context_, memory, batch_, tuple_mem_, batches, delivered,
                 cancelled, query_ok, status>>
  /\ UNCHANGED nonbatch_vars

\* ------------------------------------------- rows without materialized slots
\* A RowBatch as WriteEmptyTuples uses it: the committed rows are the first
\* num_rows entries of rows, each entry the tuple its row points to.
EmptyRowBatch ==
  [num_rows |-> 0, capacity |-> BatchSize,
   rows |-> [j \in 1..BatchSize |-> "unset"]]

\* RowBatch::AddRow: the index of the next row, not yet committed
AddRow(rb) == rb.num_rows

\* RowBatch::AddRows: room for n more rows, none committed
AddRows(rb, n) == rb

\* TupleRow::SetTuple on row row_idx of the batch
SetTuple(rb, row_idx, tuple) == [rb EXCEPT !.rows[row_idx + 1] = tuple]

\* RowBatch::CommitLastRow
CommitLastRow(rb) == [rb EXCEPT !.num_rows = rb.num_rows + 1]

\* RowBatch::CommitRows(n)
RowBatchCommitRows(rb, n) == [rb EXCEPT !.num_rows = rb.num_rows + n]

\* The predicates of a scan that materializes no slot: over constants, and
\* over the partition key when one is materialized.
EmptyConjuncts(npk) ==
  {[op |-> "true", slot |-> 0], [op |-> "false", slot |-> 0]}
    \cup (IF npk > 0 THEN {[op |-> "pk_eq", slot |-> v] : v \in {0, 1}} ELSE {})

EmptyConjunctLists(npk) ==
  UNION {[1..n -> EmptyConjuncts(npk)] : n \in 0..MaxConjuncts}

\* What a row without a tuple offers a predicate over constants
NoTuple == [null |-> << >>, val |-> << >>, pk |-> 0]

\* The loop stamping num_tuples more copies of the template tuple
RECURSIVE StampCopies(_, _, _)
StampCopies(rb, n, num_tuples) ==
  IF n >= num_tuples THEN rb
  ELSE StampCopies(CommitLastRow(SetTuple(rb, AddRow(rb), "template_tuple_")),
                   n + 1, num_tuples)

FirstRowCommittedAlways(rb, pass) == CommitLastRow(rb)

\* if (!EvalConjuncts(...)) return 0;  row_batch->CommitLastRow();
FirstRowCommitted(rb, pass) == IF pass THEN CommitLastRow(rb) ELSE rb

\* HdfsScanner::WriteEmptyTuples(RowBatch* row_batch, int num_tuples): the
\* outcomes [row_batch, ret, evals], evals counting the EvalConjuncts calls.
WriteEmptyTuples(rb, num_tuples, tmpl, conjs) ==
  IF tmpl = << >>
    THEN {[row_batch |-> RowBatchCommitRows(AddRows(rb, num_tuples), num_tuples),
           ret |-> num_tuples, evals |-> 0]}
  ELSE
    LET current_row == SetTuple(rb, AddRow(rb), "template_tuple_") IN
    {IF ~pass
       THEN [row_batch |-> FirstRowCommitted(current_row, pass), ret |-> 0,
             evals |-> 1]
     ELSE [row_batch |-> StampCopies(FirstRowCommitted(current_row, pass), 0,
                                     num_tuples - 1),
           ret |-> num_tuples - 1, evals |-> 1] :
       pass \in EvalConjuncts(conjs, Len(conjs), tmpl[1])}

\* The loop of the row variant: rows 1 .. num_tuples - 1 from the cursor
RECURSIVE SetCopies(_, _, _, _)
SetCopies(rb, row, n, num_tuples) ==
  IF n >= num_tuples THEN rb
  ELSE SetCopies(SetTuple(rb, row, "template_tuple_"), row + 1, n + 1, num_tuples)

\* ExecNode::EvalConjuncts(&(*conjuncts_)[0], num_conjuncts_, row)
RowEval(conjs, tuple) == EvalConjuncts(conjs, Len(conjs), tuple)

\* HdfsScanner::WriteEmptyTuples(ScannerContext*, TupleRow* row, int
\* num_tuples), row being the cursor's index in the batch: the outcomes
\* [row_batch, ret, evals].
WriteEmptyTuplesRow(rb, row, num_tuples, tmpl, conjs) ==
  IF num_tuples = 0 THEN {[row_batch |-> rb, ret |-> 0, evals |-> 0]}
  ELSE IF tmpl = << >>
    THEN {[row_batch |-> rb, ret |-> IF pass THEN num_tuples ELSE 0, evals |-> 1] :
            pass \in RowEval(conjs, NoTuple)}
  ELSE
    LET first == SetTuple(rb, row, "template_tuple_") IN
    {IF ~pass THEN [row_batch |-> first, ret |-> 0, evals |-> 1]
     ELSE [row_batch |-> SetCopies(first, row + 1, 1, num_tuples),
           ret |-> num_tuples, evals |-> 1] :
       pass \in RowEval(conjs, tmpl[1])}

NoCall == [done |-> FALSE, num_tuples |-> 0, rows_before |-> 0, ret |-> 0,
           evals |-> 0]

EmptyConstructed ==
  /\ row_batch = EmptyRowBatch
  /\ batch_call = NoCall
  /\ row_call = NoCall

\* A call of the batch variant, with room for num_tuples rows
CallWriteEmptyTuples(num_tuples) ==
  /\ context_ = "set"
  /\ conjuncts_ = "set"
  /\ num_tuples > 0
  /\ num_tuples <= row_batch.capacity - row_batch.num_rows
  /\ \E out \in WriteEmptyTuples(row_batch, num_tuples, template_tuple, conjuncts) :
       /\ row_batch' = out.row_batch
       /\ batch_call' = [done |-> TRUE, num_tuples |-> num_tuples,
                         rows_before |-> row_batch.num_rows, ret |-> out.ret,
                         evals |-> out.evals]
  /\ UNCHANGED row_call
  /\ UNCHANGED <<writer_vars, batch_vars, report_vars, codegen_vars>>

\* A call of the row variant on the memory after the committed rows
CallWriteEmptyTuplesRow(num_tuples) ==
  /\ context_ = "set"
  /\ conjuncts_ = "set"
  /\ num_tuples >= 0
  /\ num_tuples <= row_batch.capacity - row_batch.num_rows
  /\ \E out \in WriteEmptyTuplesRow(row_batch, row_batch.num_rows, num_tuples,
                                    template_tuple, conjuncts) :
       /\ row_batch' = out.row_batch
       /\ row_call' = [done |-> TRUE, num_tuples |-> num_tuples,
                       rows_before |-> row_batch.num_rows, ret |-> out.ret,
                       evals |-> out.evals]
  /\ UNCHANGED batch_call
  /\ UNCHANGED <<writer_vars, batch_vars, report_vars, codegen_vars>>

\* --------------------------------------------------------- code generation
\* What one conjunct offers the code generator
ExprAttributes == [codegen_fn : BOOLEAN, scratch_buffer_size : {0, 16}]

ExprLists == UNION {[1..n -> ExprAttributes] : n \in 0..MaxConjuncts}

\* The steps past the eligibility checks that can fail on their own
LlvmOutcomes == [write_slot : BOOLEAN, tuple_struct : BOOLEAN, finalize : BOOLEAN]

\* The loop over the conjuncts: "NULL" at the first one without codegen_fn();
\* one with a scratch buffer fails the DCHECK_EQ, which ends the process in a
\* debug build ("ABORT") and is compiled out of a release build.
RECURSIVE CodegenConjunctsFrom(_, _)
CodegenConjunctsFrom(es, i) ==
  IF i > Len(es) THEN {"ok"}
  ELSE IF ~es[i].codegen_fn THEN {"NULL"}
  ELSE IF es[i].scratch_buffer_size # 0
    THEN {"ABORT"} \cup CodegenConjunctsFrom(es, i + 1)
  ELSE CodegenConjunctsFrom(es, i + 1)

\* HdfsScanner::CodegenWriteCompleteTuple as to whether it produces a
\* function: the set of "fn", "NULL", "ABORT" the builds can give.
CodegenWriteCompleteTuple(types, compact, es, l) ==
  IF ~CodegenSlotsEligible(types, compact) THEN {"NULL"}
  ELSE {IF c # "ok" THEN c
        ELSE IF ~l.write_slot THEN "NULL"
        ELSE IF ~l.tuple_struct THEN "NULL"
        ELSE IF ~l.finalize THEN "NULL"
        ELSE "fn" : c \in CodegenConjunctsFrom(es, 1)}

\* HdfsScanNode::GetCodegenFn: the function the node holds, if any
GetCodegenFn(fn) == IF fn = "fn" THEN "fn" ELSE "NULL"

NoInitCall == [done |-> FALSE, ret |-> "none", enabled_before |-> 0,
               disabled_before |-> 0]

\* The scanner's members as the constructor leaves them
CodegenConstructed ==
  /\ codegen_fn_ = "NULL"
  /\ write_tuples_fn_ = "NULL"
  /\ init_call = NoInitCall

CodegenIdle ==
  /\ exprs = << >>
  /\ llvm = [write_slot |-> TRUE, tuple_struct |-> TRUE, finalize |-> TRUE]
  /\ node_fn = "none"
  /\ num_scanners_codegen_enabled = 0
  /\ num_scanners_codegen_disabled = 0
  /\ CodegenConstructed

\* The scan node generates the fused writer for its slots and conjuncts,
\* before any of its scanners initialises
CallCodegenWriteCompleteTuple ==
  /\ node_fn = "none"
  /\ ~init_call.done
  /\ num_scanners_codegen_enabled + num_scanners_codegen_disabled = 0
  /\ node_fn' \in CodegenWriteCompleteTuple(slot_types, node_compact_data, exprs,
                                            llvm)
  /\ UNCHANGED <<exprs, llvm, codegen_fn_, write_tuples_fn_,
                 num_scanners_codegen_enabled, num_scanners_codegen_disabled,
                 init_call>>
  /\ UNCHANGED <<writer_vars, batch_vars, report_vars, empty_vars>>

\* HdfsScanner::InitializeWriteTuplesFn, once per scanner. The node holds
\* no function when it generated none. stream_ is set by Prepare, and the
\* call reads it when there is a function, a string slot and no escape
\* character: it is made on a prepared scanner then.
InitializeWriteTuplesFn ==
  /\ node_fn # "ABORT"
  /\ ~init_call.done
  /\ (GetCodegenFn(node_fn) # "NULL" /\ string_slots(slot_types) # {}
        /\ escape_char = "") => context_ = "set"
  /\ LET fn == GetCodegenFn(node_fn) IN
     /\ codegen_fn_' = fn
     /\ IF fn = "NULL"
          THEN /\ num_scanners_codegen_disabled' = num_scanners_codegen_disabled + 1
               /\ UNCHANGED <<write_tuples_fn_, num_scanners_codegen_enabled>>
        ELSE IF ~CodegenUsable(slot_types, escape_char, compact_data)
          THEN /\ num_scanners_codegen_disabled' = num_scanners_codegen_disabled + 1
               /\ UNCHANGED <<write_tuples_fn_, num_scanners_codegen_enabled>>
        ELSE /\ write_tuples_fn_' = "jitted"
             /\ num_scanners_codegen_enabled' = num_scanners_codegen_enabled + 1
             /\ UNCHANGED num_scanners_codegen_disabled
  /\ init_call' = [done |-> TRUE, ret |-> "OK",
                   enabled_before |-> num_scanners_codegen_enabled,
                   disabled_before |-> num_scanners_codegen_disabled]
  /\ UNCHANGED <<exprs, llvm, node_fn>>
  /\ UNCHANGED <<writer_vars, batch_vars, report_vars, empty_vars>>

\* The next scanner of the node is constructed, for a partition and a
\* stream of its own: its members are as the constructor leaves them.
NewScanner ==
  /\ init_call.done
  /\ num_scanners_codegen_enabled + num_scanners_codegen_disabled < MaxScanners
  /\ codegen_fn_' = "NULL"
  /\ write_tuples_fn_' = "NULL"
  /\ init_call' = NoInitCall
  /\ escape_char' \in {"", "\\"}
  /\ compact_data' \in BOOLEAN
  /\ context_' = "NULL"
  /\ conjuncts_' = "NULL"
  /\ batch_' = 0
  /\ tuple_mem_' = [batch |-> 0, off |-> 0]
  /\ batches' = << >>
  /\ last' = NoLastCall
  /\ memory' = NoMemory
  /\ UNCHANGED <<delivered, cancelled, query_ok, status>>
  /\ UNCHANGED <<exprs, llvm, node_fn, num_scanners_codegen_enabled,
                 num_scanners_codegen_disabled>>
  /\ UNCHANGED <<slot_types, node_compact_data, num_materialized_partition_keys,
                 conjuncts, fields, stale, interp, fused>>
  /\ UNCHANGED <<report_vars, empty_vars>>

\* ---------------------------------------------------------- specifications
WriterInit ==
  /\ \E c \in EligibleConfigs :
       /\ slot_types = c.slot_types
       /\ escape_char = c.escape_char
       /\ compact_data = c.compact_data
       /\ node_compact_data = c.node_compact_data
  /\ num_materialized_partition_keys \in {0, 1}
  /\ conjuncts \in ConjunctLists(slot_types)
  /\ fields \in [Slots -> {FieldLocation(d, escape_char) : d \in FieldData}]
  /\ stale \in BOOLEAN
  /\ interp = InterpStart(slot_types, stale)
  /\ fused = FusedStart(slot_types, stale)
  /\ BatchConstructed
  /\ abort_on_error = FALSE
  /\ ReportConstructed
  /\ error_log = << >>
  /\ EmptyConstructed
  /\ CodegenIdle

WriterNext ==
  \/ Prepare
  \/ CallWriteCompleteTuple
  \/ FusedEntry
  \/ FusedParse
  \/ FusedEval
  \/ FusedRetTrue
  \/ FusedEvalFail

WriterSpec == WriterInit /\ [][WriterNext]_vars

\* The writer variables while the batch life cycle is checked.
WriterIdle ==
  /\ slot_types = <<"INT", "INT">>
  /\ escape_char = ""
  /\ compact_data = FALSE
  /\ node_compact_data = FALSE
  /\ num_materialized_partition_keys = 0
  /\ conjuncts = << >>
  /\ fields = [i \in SlotIdx(<<"INT", "INT">>) |-> FieldLocation(<< >>, "")]
  /\ stale = FALSE
  /\ interp = InterpStart(<<"INT", "INT">>, FALSE)
  /\ fused = FusedStart(<<"INT", "INT">>, FALSE)

ReportIdle ==
  /\ abort_on_error = FALSE
  /\ ReportConstructed
  /\ error_log = << >>

Init ==
  /\ WriterIdle
  /\ BatchConstructed
  /\ ReportIdle
  /\ EmptyConstructed
  /\ CodegenIdle

Next ==
  \/ Prepare
  \/ GetMemory
  \/ \E num_rows \in 0..BatchSize, at_resource_limit \in BOOLEAN :
       CommitRows(num_rows, at_resource_limit)
  \/ AddFinalRowBatch
  \/ Cancel
  \/ QueryFails

Spec == Init /\ [][Next]_vars

\* Parse-error reporting over a scanner's life: rows with conversion errors
\* are reported while whole batches are committed and the scanner is closed.
ReportInit ==
  /\ slot_types = <<"INT", "INT">>
  /\ escape_char = "\\"
  /\ compact_data = FALSE
  /\ node_compact_data = FALSE
  /\ num_materialized_partition_keys = 0
  /\ conjuncts = << >>
  /\ fields = [i \in SlotIdx(<<"INT", "INT">>) |-> FieldLocation(<<"7">>, "\\")]
  /\ stale = FALSE
  /\ interp = InterpStart(<<"INT", "INT">>, FALSE)
  /\ fused = FusedStart(<<"INT", "INT">>, FALSE)
  /\ BatchConstructed
  /\ abort_on_error \in BOOLEAN
  /\ ReportConstructed
  /\ EmptyConstructed
  /\ CodegenIdle

ReportNext ==
  \/ Prepare
  \/ FlagRow
  \/ \E row_idx \in {0} : ReportTupleParseError(row_idx)
  \/ \E num_rows \in {BatchSize} : CommitRows(num_rows, FALSE)
  \/ AddFinalRowBatch
  \/ Close

ReportSpec == ReportInit /\ [][ReportNext]_vars

\* A scan that materializes no slot from the file: both variants of
\* WriteEmptyTuples on the same template tuple and predicates.
EmptyInit ==
  /\ slot_types = << >>
  /\ escape_char = "\\"
  /\ compact_data = FALSE
  /\ node_compact_data = FALSE
  /\ num_materialized_partition_keys \in {0, 1}
  /\ conjuncts \in EmptyConjunctLists(num_materialized_partition_keys)
  /\ fields = << >>
  /\ stale = FALSE
  /\ interp = InterpStart(<< >>, FALSE)
  /\ fused = FusedStart(<< >>, FALSE)
  /\ BatchConstructed
  /\ ReportIdle
  /\ EmptyConstructed
  /\ CodegenIdle

EmptyNext ==
  \/ Prepare
  \/ \E num_tuples \in 1..BatchSize : CallWriteEmptyTuples(num_tuples)
  \/ \E num_tuples \in 0..BatchSize : CallWriteEmptyTuplesRow(num_tuples)

EmptySpec == EmptyInit /\ [][EmptyNext]_vars

\* Code generation for a scan node and the scanners that then initialise
CodegenSchemas == Schemas \cup {<<"INT", "TIMESTAMP">>}

CodegenInit ==
  /\ slot_types \in CodegenSchemas
  /\ escape_char \in {"", "\\"}
  /\ compact_data \in BOOLEAN
  /\ node_compact_data \in BOOLEAN
  /\ num_materialized_partition_keys = 0
  /\ exprs \in ExprLists
  /\ conjuncts = [k \in 1..Len(exprs) |-> [op |-> "true", slot |-> 0]]
  /\ fields = [i \in SlotIdx(slot_types) |-> FieldLocation(<< >>, escape_char)]
  /\ stale = FALSE
  /\ interp = InterpStart(slot_types, FALSE)
  /\ fused = FusedStart(slot_types, FALSE)
  /\ BatchConstructed
  /\ ReportIdle
  /\ EmptyConstructed
  /\ llvm \in LlvmOutcomes
  /\ node_fn = "none"
  /\ num_scanners_codegen_enabled = 0
  /\ num_scanners_codegen_disabled = 0
  /\ CodegenConstructed

\* Nothing runs once the failed DCHECK of the code generator has ended the
\* process.
CodegenNext ==
  \/ CallCodegenWriteCompleteTuple
  \/ node_fn # "ABORT" /\ Prepare
  \/ InitializeWriteTuplesFn
  \/ NewScanner

CodegenSpec == CodegenInit /\ [][CodegenNext]_vars

\* ------------------------------------------------- claims on the writers
BothDone == interp.pc = "done" /\ fused.pc = "done"

Converted(s) == \E a \in 1..Len(fused.converted) : fused.converted[a].slot = s

\* Whether slot i's field fails conversion, asked of the converter directly.
SlotFails(i) ==
  ~WriteSlot(SlotType(i), StaleTuple(slot_types, FALSE), i, fields[i].start,
             Abs(fields[i].len), compact_data, fields[i].len < 0, escape_char).ok

\* C1 as stated: on every input the two writers return the same result and
\* leave the same tuple bytes.
C1_SameResultSameTuple ==
  BothDone => (fused.ret = interp.ret /\ fused.tuple = interp.tuple)

\* C1 amended: the two writers always return the same accept/reject result,
\* and leave the same tuple bytes whenever the row is accepted.
C1_SameResultSameTupleOnAccept ==
  BothDone => /\ fused.ret = interp.ret
              /\ fused.ret => fused.tuple = interp.tuple

\* C1 witness: an accepted row with a predicate, holding an escaped field
\* (negative length) that is malformed.
C1_Witness ==
  /\ BothDone /\ fused.ret /\ Len(conjuncts) >= 1
  /\ \E i \in Slots : fields[i].len < 0 /\ interp.error_fields[i]

\* C2 as stated: the per-slot error flags and the error-in-row flag are equal
\* after both writers, accepted or rejected.
C2_SameErrorFlags ==
  BothDone => /\ fused.error_fields = interp.error_fields
              /\ fused.error_in_row_arg = interp.error_in_row

\* C2 amended: on an accepted row the per-slot error flags and the
\* error-in-row flag left by the fused writer equal the interpreted writer's.
C2_SameErrorFlagsOnAccept ==
  (BothDone /\ fused.ret) => /\ fused.error_fields = interp.error_fields
                             /\ fused.error_in_row_arg = interp.error_in_row

\* C2 witness: an accepted row, filtered by a predicate, where one slot
\* failed and another did not.
C2_Witness ==
  /\ BothDone /\ fused.ret /\ Len(conjuncts) >= 1
  /\ \E i, j \in Slots : interp.error_fields[i] /\ ~interp.error_fields[j]

\* C3: when predicate k is evaluated every slot of materialization order <= k
\* has been converted in this call, and so has every slot predicate k
\* references.
C3_SlotsReadyAtEval ==
  fused.pc = "eval" =>
    /\ \A s \in Slots : materialize_order[s] <= fused.conjunct_idx => Converted(s)
    /\ \A s \in GetSlotIds(conjuncts[fused.conjunct_idx + 1]) : Converted(s)

\* C3 witness: the second predicate is about to be evaluated, one slot was
\* scheduled for the first predicate and another for the second.
C3_Witness ==
  /\ fused.pc = "eval" /\ fused.conjunct_idx = 1
  /\ \E s, t \in Slots : materialize_order[s] = 0 /\ materialize_order[t] = 1

\* C4: no slot is converted twice in one call, every conversion happens in
\* the pass equal to the slot's materialization order, and on an accepted row
\* every slot has been converted.
C4_ConvertedOnceInOwnPass ==
  /\ \A a, b \in 1..Len(fused.converted) :
       a # b => fused.converted[a].slot # fused.converted[b].slot
  /\ \A a \in 1..Len(fused.converted) :
       fused.converted[a].pass = materialize_order[fused.converted[a].slot]
  /\ (fused.pc = "done" /\ fused.ret) => \A s \in Slots : Converted(s)

\* C4 witness: an accepted row with a slot referenced by no predicate and a
\* slot referenced by one.
C4_Witness ==
  /\ fused.pc = "done" /\ fused.ret /\ Len(conjuncts) >= 1
  /\ \E s, t \in Slots : /\ materialize_order[s] = Len(conjuncts)
                         /\ materialize_order[t] < Len(conjuncts)

\* C5: predicates are evaluated in the order 0,1,..., each only after all
\* earlier ones accepted; a rejection is the last evaluation and returns
\* false through eval_fail; true is returned only after all N accepted.
C5_PredicatesInOrder ==
  /\ \A j \in 1..Len(fused.evaluated) :
       /\ fused.evaluated[j].idx = j - 1
       /\ j < Len(fused.evaluated) => fused.evaluated[j].result
  /\ fused.pc = "done" =>
       /\ fused.ret <=> /\ Len(fused.evaluated) = Len(conjuncts)
                        /\ \A j \in 1..Len(fused.evaluated) : fused.evaluated[j].result
       /\ ~fused.ret => /\ fused.exit = "eval_fail"
                        /\ Len(fused.evaluated) >= 1
                        /\ ~fused.evaluated[Len(fused.evaluated)].result
       /\ fused.ret => fused.exit = "ret_true"

\* C5 witness: the first of two predicates rejected, the second was never
\* evaluated.
C5_Witness ==
  /\ fused.pc = "done" /\ ~fused.ret
  /\ Len(conjuncts) = 2 /\ Len(fused.evaluated) = 1

\* C6: the interpreted writer hands every slot to the converter, in order,
\* flags exactly the slots that failed, sets the row flag iff some slot
\* failed, and returns true iff every predicate accepts the written tuple.
C6_InterpretedResult ==
  interp.pc = "done" =>
    /\ interp.attempts = [j \in 1..NumSlots(slot_types) |-> j - 1]
    /\ \A i \in Slots : interp.error_fields[i] = SlotFails(i)
    /\ interp.error_in_row = (\E i \in Slots : SlotFails(i))
    /\ interp.ret = (\A k \in 1..Len(conjuncts) :
                       ConjunctEval(conjuncts[k], interp.tuple) = {TRUE})

\* C6 witness: the first slot failed, a later one did not, and the row still
\* passed a predicate.
C6_Witness ==
  /\ interp.pc = "done" /\ interp.ret /\ Len(conjuncts) >= 1
  /\ interp.error_fields[0] /\ \E i \in Slots : ~interp.error_fields[i]

\* ------------------------------------------- claims on the batch life cycle
LastDelivered == delivered[Len(delivered)]

\* C7: a CommitRows call that fills the batch, or leaves it at the resource
\* limit below capacity, delivers that batch not-final and leaves a fresh
\* current batch with zero committed rows.
C7_SealOnFullOrLimit ==
  (/\ last.op = "CommitRows"
   /\ \/ last.rows_before + last.num_rows = BatchSize
      \/ last.at_resource_limit)
  => /\ Len(delivered) = last.delivered_before + 1
     /\ LastDelivered = [batch |-> last.batch, done |-> FALSE]
     /\ batches[last.batch].num_rows = last.rows_before + last.num_rows
     /\ batch_ # 0 /\ batch_ # last.batch
     /\ batches[batch_].num_rows = 0
     /\ tuple_mem_ = [batch |-> batch_, off |-> 0]

\* C7 witness: a commit sealed the batch at the resource limit with room left.
C7_Witness ==
  /\ last.op = "CommitRows" /\ last.at_resource_limit
  /\ last.num_rows > 0
  /\ last.rows_before + last.num_rows < BatchSize
  /\ Len(delivered) = last.delivered_before + 1

\* C8 as stated: the CommitRows call after the cancellation flag was set
\* returns CANCELLED, delivers no batch and commits no rows.
C8_CancelledCommitDoesNothing ==
  (last.op = "CommitRows" /\ last.was_cancelled)
  => /\ last.ret = "CANCELLED"
     /\ Len(delivered) = last.delivered_before
     /\ batches[last.batch].num_rows = last.rows_before

\* C8 amended: the CommitRows call after the cancellation flag was set returns
\* CANCELLED, whatever the health check says; its rows are committed all the
\* same, and it delivers its batch, not-final, exactly when the batch is then
\* full or at the resource limit.
C8_CancelledCommitReturnsCancelled ==
  (last.op = "CommitRows" /\ last.was_cancelled)
  => /\ last.ret = "CANCELLED" /\ status = "CANCELLED"
     /\ batches[last.batch].num_rows = last.rows_before + last.num_rows
     /\ IF last.rows_before + last.num_rows = BatchSize \/ last.at_resource_limit
          THEN /\ Len(delivered) = last.delivered_before + 1
               /\ LastDelivered = [batch |-> last.batch, done |-> FALSE]
          ELSE Len(delivered) = last.delivered_before

\* C8 witness: a batch had been sealed, the flag was set, and the next commit
\* returned CANCELLED having sealed another batch while the health check failed.
C8_Witness ==
  /\ last.op = "CommitRows" /\ last.was_cancelled /\ ~last.was_query_ok
  /\ last.delivered_before >= 1
  /\ Len(delivered) = last.delivered_before + 1
  /\ last.ret = "CANCELLED"

\* C9: only the last delivery can be final and then batch_ is NULL; what
\* CommitRows delivers is not final; AddFinalRowBatch delivers the current
\* batch final whatever it holds and clears batch_.
C9_FinalBatchLast ==
  /\ \A j \in 1..Len(delivered) :
       delivered[j].done => (j = Len(delivered) /\ batch_ = 0)
  /\ (last.op = "CommitRows" /\ Len(delivered) > last.delivered_before)
       => ~LastDelivered.done
  /\ last.op = "AddFinalRowBatch"
       => /\ batch_ = 0
          /\ Len(delivered) = last.delivered_before + 1
          /\ LastDelivered = [batch |-> last.batch, done |-> TRUE]
          /\ batches[last.batch].num_rows = last.rows_before
  /\ (context_ = "set" /\ batch_ = 0)
       => (Len(delivered) >= 1 /\ LastDelivered.done)

\* C9 witness: after a batch sealed by CommitRows, AddFinalRowBatch delivered
\* a final batch holding zero rows.
C9_Witness ==
  /\ last.op = "AddFinalRowBatch" /\ last.rows_before = 0
  /\ Len(delivered) >= 2 /\ batch_ = 0

\* C10: neither batch_ nor tuple_mem_ designates a delivered batch, and no
\* batch is delivered twice.
C10_NoReferenceToDelivered ==
  /\ \A j \in 1..Len(delivered) :
       /\ delivered[j].batch # batch_
       /\ delivered[j].batch # tuple_mem_.batch
  /\ \A j, k \in 1..Len(delivered) :
       j # k => delivered[j].batch # delivered[k].batch

\* ------------------------------------------------ claims on error reporting
\* The slots flagged in flags, in slot order
FlaggedSlots(flags) ==
  SelectSeq([j \in 1..NumSlots(slot_types) |-> j - 1], LAMBDA i : flags[i])

\* The messages the last ReportTupleParseError call appended to the log
Appended == SubSeq(error_log, report.log_before + 1, Len(error_log))

ColumnMessages == SelectSeq(Appended, LAMBDA m : m.kind = "column")

\* C11 as stated: a ReportTupleParseError call adds exactly 1 to the per-file
\* error counter and logs exactly one column-level message per flagged slot.
C11_OneMessagePerFlaggedSlot ==
  report.calls > 0 =>
    /\ num_errors_in_file_ = report.num_errors_before + 1
    /\ Len(ColumnMessages) = Len(FlaggedSlots(report.flagged))

\* C11 amended: a ReportTupleParseError call adds exactly 1 to the per-file
\* error counter whatever the number of flagged slots, and logs one
\* column-level message per flagged slot, in slot order, for as long as the
\* log has space: the flagged slots reached after the log is full get none.
C11_OneMessagePerFlaggedSlotWhileSpace ==
  report.calls > 0 =>
    LET flagged == FlaggedSlots(report.flagged)
        room == MaxLogErrors - report.log_before
    IN /\ num_errors_in_file_ = report.num_errors_before + 1
       /\ Len(ColumnMessages) = Min({Len(flagged), room})
       /\ \A j \in 1..Len(ColumnMessages) :
            ColumnMessages[j] =
              ColumnMessage(slot_types, flagged[j], report.fields[flagged[j]].start,
                            Abs(report.fields[flagged[j]].len))

\* One malformed column out of two, two flagged columns in another call, and
\* a call that found the log full
C11_Witness ==
  /\ report.calls = 2
  /\ Len(FlaggedSlots(report.flagged)) = 1
  /\ Len(ColumnMessages) = 1
  /\ num_errors_in_file_ = 2

\* C12: under abort-on-error a ReportTupleParseError call leaves the parse
\* status failed and returns false, with or without space in the log; once
\* failed the status stays failed through every later operation, and it
\* keeps the message of the first failing column.
C12_AbortStatusSticky ==
  (abort_on_error /\ report.calls > 0) =>
    /\ ~parse_status_.ok
    /\ ~report.ret
    /\ parse_status_ =
         IF report.status_before.ok
           THEN LET i == FlaggedSlots(report.flagged)[1]
                IN [ok |-> FALSE,
                    msg |-> ColumnMessage(slot_types, i, report.fields[i].start,
                                          Abs(report.fields[i].len))]
           ELSE report.status_before

\* The first failing row has two flagged columns and finds the log full; the
\* scanner has since committed a batch, delivered the final one and closed.
C12_Witness ==
  /\ abort_on_error
  /\ report.calls > 0
  /\ report.status_before.ok
  /\ report.log_before = MaxLogErrors
  /\ Len(FlaggedSlots(report.flagged)) = 2
  /\ ~parse_status_.ok
  /\ last.op = "Close"
  /\ batch_ = 0
  /\ Len(delivered) > 1

\* C13: with abort-on-error off the parse status stays OK, every
\* ReportTupleParseError call returns true and no per-file error is
\* registered; a call changes the error counter, the log and the error flags
\* and nothing else.
C13_NoAbortStatusStaysOK ==
  /\ [](~abort_on_error =>
          /\ parse_status_ = StatusOK
          /\ report.ret
          /\ file_errors = 0)
  /\ [][(~abort_on_error /\ num_errors_in_file_' # num_errors_in_file_) =>
          UNCHANGED <<writer_vars, batch_vars, abort_on_error, parse_status_,
                      file_errors>>]_vars

\* Two reports without abort-on-error, the second with a flagged column
C13_Witness ==
  /\ ~abort_on_error
  /\ report.calls = 2
  /\ num_errors_in_file_ = 2
  /\ report.flagged # NoFlags(slot_types)
  /\ report.ret

\* C20: ReportTupleParseError reports exactly the flagged slots, in slot
\* order, and leaves every flag false, so that a repeated call on the same
\* flags reports no column; the length shown for a reported column is the
\* absolute value of the field length.
C20_ReportsFlaggedAndClears ==
  report.calls > 0 =>
    LET flagged == FlaggedSlots(report.flagged)
    IN /\ report.errors_after = NoFlags(slot_types)
       /\ Len(report.reported) = Len(flagged)
       /\ \A j \in 1..Len(flagged) :
            /\ report.reported[j].slot = flagged[j]
            /\ report.reported[j].len = Abs(report.fields[flagged[j]].len)
            /\ report.reported[j].len >= 0
       /\ (report.flagged = NoFlags(slot_types) => report.reported = << >>)

\* A reported column whose field length is negative
C20_Witness ==
  /\ report.calls > 0
  /\ \E j \in 1..Len(report.reported) :
       /\ report.fields[report.reported[j].slot].len < 0
       /\ report.reported[j].len = 2
  /\ errors = NoFlags(slot_types)

\* A call repeated on the flags the call before it cleared
C20_RepeatedCall ==
  /\ report.calls = 2
  /\ report.flagged = NoFlags(slot_types)
  /\ report.reported = << >>

\* --------------------------------------------------- claims on empty tuples
\* Whether the predicates accept the template tuple
TemplateAccepted ==
  EvalConjuncts(conjuncts, Len(conjuncts), template_tuple[1]) = {TRUE}

\* C14: WriteEmptyTuples(row_batch, n) with a template tuple, n > 0 and room
\* for n rows leaves the number of committed rows unchanged when the
\* predicates reject the template tuple, and commits exactly n rows, each
\* pointing to the template tuple, when they accept it; it evaluates the
\* predicates at most once.
C14_RejectNoneAcceptAll ==
  batch_call.done =>
    /\ batch_call.evals <= 1
    /\ (template_tuple # << >> /\ ~TemplateAccepted) =>
         row_batch.num_rows = batch_call.rows_before
    /\ (template_tuple # << >> /\ TemplateAccepted) =>
         /\ row_batch.num_rows = batch_call.rows_before + batch_call.num_tuples
         /\ \A j \in (batch_call.rows_before + 1)..row_batch.num_rows :
              row_batch.rows[j] = "template_tuple_"

\* Two rows accepted in one call after an earlier one
C14_Witness ==
  /\ batch_call.done
  /\ template_tuple # << >>
  /\ TemplateAccepted
  /\ Len(conjuncts) = MaxConjuncts
  /\ batch_call.num_tuples = 2
  /\ row_batch.num_rows = batch_call.rows_before + 2

\* A call whose predicates reject the template tuple
C14_RejectReached ==
  /\ batch_call.done
  /\ template_tuple # << >>
  /\ ~TemplateAccepted
  /\ row_batch.num_rows = 0

\* What the predicates make of a row of this scan
RowAccepted ==
  EvalConjuncts(conjuncts, Len(conjuncts),
                IF template_tuple = << >> THEN NoTuple ELSE template_tuple[1])
    = {TRUE}

\* C15: the row variant evaluates the predicates exactly once for n > 0 and
\* returns 0 when they reject and n when they accept; it returns 0 without
\* evaluating for n = 0; and for the same template tuple, predicates and n
\* it gives as many rows as the batch variant commits, with or without a
\* template tuple.
C15_RowVariantSameAsBatch ==
  /\ row_call.done =>
       IF row_call.num_tuples = 0
         THEN row_call.ret = 0 /\ row_call.evals = 0
       ELSE /\ row_call.evals = 1
            /\ row_call.ret = IF RowAccepted THEN row_call.num_tuples ELSE 0
  /\ (row_call.done /\ batch_call.done
        /\ row_call.num_tuples = batch_call.num_tuples) =>
       row_call.ret = row_batch.num_rows - batch_call.rows_before

\* ---------------------------------------------- claims on code generation
\* C16: InitializeWriteTuplesFn returns OK in every case and increments
\* exactly one of the two counters; write_tuples_fn_ is set exactly when it
\* is the enabled counter, which is when the node has a function and no
\* string slot meets an escape character or a compacting copy; on every
\* other path write_tuples_fn_ stays null.
C16_OneCounterPerInit ==
  init_call.done =>
    LET enabled == num_scanners_codegen_enabled - init_call.enabled_before
        disabled == num_scanners_codegen_disabled - init_call.disabled_before
    IN /\ init_call.ret = "OK"
       /\ enabled \in {0, 1}
       /\ disabled = 1 - enabled
       /\ (write_tuples_fn_ # "NULL") <=> (enabled = 1)
       /\ (enabled = 1) <=>
            /\ node_fn = "fn"
            /\ ~(string_slots(slot_types) # {}
                   /\ (escape_char # "" \/ compact_data))

\* The node generated the function, a first scanner was given it, and a
\* second one is refused because its stream compacts the string slot
C16_Witness ==
  /\ init_call.done
  /\ node_fn = "fn"
  /\ ~node_compact_data
  /\ compact_data
  /\ escape_char = ""
  /\ num_scanners_codegen_enabled = 1
  /\ num_scanners_codegen_disabled = 1
  /\ write_tuples_fn_ = "NULL"
  /\ codegen_fn_ = "fn"

\* A scanner refused for its partition's escape character
C16_EscapeReached ==
  /\ init_call.done
  /\ node_fn = "fn"
  /\ ~compact_data
  /\ escape_char # ""
  /\ num_scanners_codegen_disabled = 1
  /\ write_tuples_fn_ = "NULL"
  /\ codegen_fn_ = "fn"

\* A scanner of a node that generated no function
C16_NoFunctionReached ==
  /\ init_call.done
  /\ node_fn # "fn"
  /\ num_scanners_codegen_disabled = 1
  /\ write_tuples_fn_ = "NULL"
  /\ codegen_fn_ = "NULL"

\* The four eligibility conditions of the claim
NoTimestampSlot == \A i \in SlotIdx(slot_types) : SlotType(i) # "TIMESTAMP"

NoCompactedString == ~(node_compact_data /\ string_slots(slot_types) # {})

AllConjunctsCompiled == \A k \in 1..Len(exprs) : exprs[k].codegen_fn

NoScratchStorage == \A k \in 1..Len(exprs) : exprs[k].scratch_buffer_size = 0

\* C17: CodegenWriteCompleteTuple produces a function only when all four
\* eligibility conditions hold, and when one of them fails (a timestamp
\* slot, a string slot to be compacted, a predicate without compiled form, a
\* predicate that needs scratch storage) it produces no function and that
\* is not fatal.
C17_FunctionOnlyWhenEligible ==
  node_fn # "none" =>
    /\ node_fn = "fn" =>
         (NoTimestampSlot /\ NoCompactedString /\ AllConjunctsCompiled
            /\ NoScratchStorage)
    /\ ~(NoTimestampSlot /\ NoCompactedString /\ AllConjunctsCompiled
           /\ NoScratchStorage) => node_fn = "NULL"

\* ------------------------------------------- claims on the rejected row
\* The tuple as the generated function's entry block leaves it
FusedEntryTuple ==
  FusedInitTuple(num_materialized_partition_keys, template_tuple,
                 StaleTuple(slot_types, stale))

\* C18: when predicate k is the first to reject in the fused writer, every
\* slot whose materialization order is above k is left unconverted: its
\* tuple bytes and null bit are as the entry block left them, its error flag
\* and the error-in-row output are as the caller passed them; the
\* interpreted writer on the same input has handed every slot to the
\* converter before it evaluates a predicate.
C18_LaterSlotsUntouchedOnReject ==
  (BothDone /\ fused.exit = "eval_fail") =>
    LET k == fused.evaluated[Len(fused.evaluated)].idx IN
    /\ ~fused.evaluated[Len(fused.evaluated)].result
    /\ \A s \in Slots : materialize_order[s] > k =>
         /\ ~Converted(s)
         /\ fused.tuple.val[s] = FusedEntryTuple.val[s]
         /\ fused.tuple.null[s] = FusedEntryTuple.null[s]
         /\ fused.error_fields[s] = FALSE
    /\ fused.error_in_row_arg = FALSE
    /\ interp.attempts = [j \in 1..NumSlots(slot_types) |-> j - 1]

\* The first predicate rejects a row whose other slot, due in a later pass,
\* holds a field that does not convert
C18_Witness ==
  /\ BothDone
  /\ fused.exit = "eval_fail"
  /\ fused.evaluated[Len(fused.evaluated)].idx = 0
  /\ Len(conjuncts) = 2
  /\ \E s, t \in Slots :
       /\ materialize_order[s] = 0 /\ Converted(s)
       /\ materialize_order[t] > 0 /\ SlotFails(t) /\ ~fused.error_fields[t]
       /\ interp.error_fields[t]

\* ------------------------------------------ claims on the polls of CommitRows
\* C19: every CommitRows call, sealing or not, commits its rows and then
\* returns CANCELLED when the cancellation flag is set, also when the health
\* check fails too, otherwise the health check's error when it fails,
\* otherwise OK; whichever it returns, the scanner is left with a current
\* batch that is not null and has not been delivered.
C19_PollsAfterCommit ==
  last.op = "CommitRows" =>
    /\ last.ret = IF last.was_cancelled THEN "CANCELLED"
                  ELSE IF ~last.was_query_ok THEN "ERROR" ELSE "OK"
    /\ status = last.ret
    /\ batches[last.batch].num_rows = last.rows_before + last.num_rows
    /\ batch_ \in 1..Len(batches)
    /\ \A j \in 1..Len(delivered) : delivered[j].batch # batch_

\* The health check's error is returned by a commit that sealed no batch
C19_Witness ==
  /\ last.op = "CommitRows"
  /\ last.ret = "ERROR"
  /\ ~last.was_cancelled
  /\ last.num_rows > 0
  /\ Len(delivered) = last.delivered_before
  /\ batch_ = last.batch

\* Each of the other two outcomes, after a commit that sealed the batch
C19_CancelledSealed ==
  /\ last.op = "CommitRows" /\ last.ret = "CANCELLED" /\ ~last.was_query_ok
  /\ Len(delivered) = last.delivered_before + 1 /\ batch_ # 0

C19_OKSealed ==
  /\ last.op = "CommitRows" /\ last.ret = "OK"
  /\ Len(delivered) = last.delivered_before + 1 /\ batch_ # 0

\* ------------------------------------- claims on the value WriteEmptyTuples returns
\* C21: the value WriteEmptyTuples(row_batch, n) returns is the number of
\* rows the call committed to row_batch, without a template tuple, with a
\* template tuple the predicates reject, and with one they accept.
C21_ReturnsRowsCommitted ==
  batch_call.done =>
    batch_call.ret = row_batch.num_rows - batch_call.rows_before

\* The two cases in which the returned value is the number of rows committed
C21_CountOnlyReached ==
  /\ batch_call.done
  /\ template_tuple = << >>
  /\ batch_call.ret = 2
  /\ row_batch.num_rows - batch_call.rows_before = 2

C21_RejectedReached ==
  /\ batch_call.done
  /\ template_tuple # << >>
  /\ ~TemplateAccepted
  /\ batch_call.ret = 0
  /\ row_batch.num_rows = batch_call.rows_before

\* ------------------------------------------ claims on the batch's invariants
\* C22: while the scanner holds a current batch, reached from Prepare by
\* GetMemory and CommitRows calls within CommitRows' precondition, the
\* batch's committed rows do not exceed its capacity and the tuple cursor is
\* the start of the batch's tuple allocation plus committed rows times the
\* tuple byte size; after each CommitRows the current batch is not null and
\* not full, so that GetMemory's assertions hold and it reports at least
\* one free row.
C22_BatchInvariants ==
  /\ batch_ # 0 =>
       /\ batch_ \in 1..Len(batches)
       /\ batches[batch_].num_rows <= batches[batch_].capacity
       /\ tuple_mem_ = [batch |-> batch_,
                        off |-> batches[batch_].num_rows * tuple_byte_size_]
  /\ last.op \in {"Prepare", "GetMemory", "CommitRows"} =>
       /\ batch_ # 0
       /\ ~IsFull(batches[batch_])
  /\ last.op = "GetMemory" =>
       /\ memory.ret >= 1
       /\ memory.ret = batches[batch_].capacity - batches[batch_].num_rows
       /\ memory.pool = batch_
       /\ memory.tuple_mem = tuple_mem_
       /\ memory.tuple_row_mem = batches[batch_].num_rows

\* GetMemory on the second batch, with one row committed to it
C22_Witness ==
  /\ last.op = "GetMemory"
  /\ memory.pool = 2
  /\ memory.tuple_row_mem = 1
  /\ memory.tuple_mem = [batch |-> 2, off |-> tuple_byte_size_]
  /\ memory.ret = BatchSize - 1
  /\ Len(delivered) = 1

\* ------------------------------------------------ claims on the hand-off
\* The committed rows of the first j batches delivered to the scan node
RECURSIVE DeliveredRows(_)
DeliveredRows(j) ==
  IF j = 0 THEN 0
  ELSE batches[delivered[j].batch].num_rows + DeliveredRows(j - 1)

\* C23: no committed row is lost or duplicated by the hand-off: the batches
\* are delivered in the order of their creation, each once; the rows of the
\* delivered batches and of the current one add up to the sum of the
\* num_rows of all CommitRows calls, and after the closing AddFinalRowBatch
\* every batch has been delivered and the delivered rows alone add up to it.
C23_NoRowLostOrDuplicated ==
  /\ \A j \in 1..Len(delivered) : delivered[j].batch = j
  /\ last.total_rows =
       DeliveredRows(Len(delivered))
         + (IF batch_ = 0 THEN 0 ELSE batches[batch_].num_rows)
  /\ last.op = "AddFinalRowBatch" =>
       /\ Len(delivered) = Len(batches)
       /\ last.total_rows = DeliveredRows(Len(delivered))

\* A full batch, a batch sealed at the resource limit with one row, and a
\* final batch with one row have been delivered
C23_Witness ==
  /\ last.op = "AddFinalRowBatch"
  /\ Len(delivered) = 3
  /\ batches[1].num_rows = BatchSize
  /\ batches[2].num_rows = 1
  /\ batches[3].num_rows = 1
  /\ last.total_rows = BatchSize + 2

====
